---- MODULE Spec2Model ----
(***************************************************************************)
(* Model of the `question` crate (src/src/lib.rs): a Question owns a       *)
(* reader and a writer; ask() normalises the question, writes and flushes  *)
(* it, reads one line and returns the trimmed answer, None at end of       *)
(* input, or the I/O error of the step that failed.                        *)
(*                                                                         *)
(* Text is a sequence of one-character strings.  InvalidByte stands for a  *)
(* byte that is not valid UTF-8 (it can only occur in the reader).         *)
(*                                                                         *)
(* Three specifications run the same ask() over different streams:         *)
(*   Spec      streams that may fail (every `?` of ask can be taken)       *)
(*   SpecMem   in-memory streams (a byte slice and a Vec never fail)       *)
(*   SpecEmpty io::empty() as the reader, as in the crate's tests, and     *)
(*             questions over every kind of whitespace                     *)
(***************************************************************************)
EXTENDS Integers, Sequences, FiniteSets, TLC

\* ---------------------------------------------------------------- bounds
MaxSrcLen   == 4    \* SpecMem: longest source handed to Question::new
MaxOut      == 4    \* SpecMem: bytes the writer accepts in all
FaultSrcLen == 3    \* Spec: longest source
FaultOut    == 2    \* Spec: bytes the writer accepts in all
MaxFaults   == 1    \* Spec: I/O faults the streams raise
PromptOut   == 5    \* SpecEmpty: bytes the writer accepts in all

\* ------------------------------------------------------------ characters
SP  == " "
TAB == "\t"
NL  == "\n"
InvalidByte == "#FF"

QChars      == {"a", SP}
PromptChars == {"a", SP, TAB, NL}
SrcChars    == {"a", SP, NL, InvalidByte}

\* char::is_whitespace restricted to the characters of the model
IsWhitespace(c) == c \in {SP, TAB, NL, "\r"}

SeqsUpTo(S, k) == UNION {[1..m -> S] : m \in 0..k}

\* ------------------------------------------------------- pure functions
Prefix(s, k) == SubSeq(s, 1, k)
Drop(s, k)   == SubSeq(s, k + 1, Len(s))

\* str::ends_with(' ')
EndsWithSpace(s) == Len(s) > 0 /\ s[Len(s)] = SP

\* ensure_ends_with_whitespace with the test dropped: always appends
ensure_always_appends(source) == source \o <<SP>>

\* ensure_ends_with_whitespace testing for any whitespace, not for ' '
ensure_any_whitespace(source) ==
    IF Len(source) > 0 /\ IsWhitespace(source[Len(source)])
    THEN source ELSE source \o <<SP>>

ensure_ends_with_whitespace(source) ==
    IF EndsWithSpace(source) THEN source ELSE source \o <<SP>>

RECURSIVE TrimStart(_)
TrimStart(s) ==
    IF s = <<>> THEN s
    ELSE IF IsWhitespace(Head(s)) THEN TrimStart(Tail(s)) ELSE s

RECURSIVE TrimEnd(_)
TrimEnd(s) ==
    IF s = <<>> THEN s
    ELSE IF IsWhitespace(s[Len(s)]) THEN TrimEnd(Prefix(s, Len(s) - 1)) ELSE s

\* str::trim replaced by str::trim_end
trim_end_only(s) == TrimEnd(s)

\* str::trim
Trim(s) == TrimStart(TrimEnd(s))

\* read_until reading to end of input instead of to the delimiter
read_to_end_len(r) == Len(r)

\* number of bytes BufRead::read_until(b'\n') takes from r: up to and
\* including the first newline, or everything when there is none
RECURSIVE ReadUntilLen(_)
ReadUntilLen(r) ==
    IF r = <<>> THEN 0
    ELSE IF Head(r) = NL THEN 1 ELSE 1 + ReadUntilLen(Tail(r))

\* from_utf8 on the bytes of the line
ValidUtf8(s) == \A i \in 1..Len(s) : s[i] # InvalidByte

None      == [tag |-> "None"]
Some(s)   == [tag |-> "Some", val |-> s]
Err(kind) == [tag |-> "Err", kind |-> kind]
NoResult  == [tag |-> "NoResult"]

\* the match testing the trimmed text instead of n
match_empty_is_none(cnt, buf) ==
    IF Trim(buf) = <<>> THEN None ELSE Some(Trim(buf))

\* the match without its 0 arm
match_eof_is_empty(cnt, buf) == Some(Trim(buf))

\* Ok(match n { 0 => None, _ => Some(buffer.trim().to_owned()) })
MatchN(cnt, buf) == IF cnt = 0 THEN None ELSE Some(Trim(buf))

\* Write::write_all on a buffering writer w
WriterWrite(w, bytes) == [w EXCEPT !.buf = @ \o bytes]

\* flush left out
no_flush(w) == w

\* Write::flush on a buffering writer w
WriterFlush(w) == [buf |-> <<>>, out |-> w.out \o w.buf]

\* ---------------------------------------------------------------- state
VARIABLES
    reader,     \* Question.reader: the bytes not yet consumed
    writer,     \* Question.writer: buf (accepted, not flushed), out (flushed)
    pc,         \* position inside ask: idle, write, flush, read, match
    arg,        \* ask's parameter `question`
    question,   \* ask's local `question` (normalised)
    buffer,     \* ask's local `buffer`
    n,          \* ask's local `n`
    result,     \* value returned by the last completed ask
    prev,       \* value returned by the call before that
    src0,       \* the bytes the reader was constructed over
    asked,      \* the questions of the calls made so far, in call order
    startOut,   \* bytes the writer had accepted when the call began
    startRdr,   \* reader when the call began
    writes,     \* write_all calls made by the current call
    flushes,    \* flush calls made by the current call
    reads,      \* read_line calls made by the current call
    fault,      \* the stream operation that failed in the current call
    faults      \* I/O faults raised so far

vars == <<reader, writer, pc, arg, question, buffer, n, result, prev, src0,
          asked, startOut, startRdr, writes, flushes, reads, fault, faults>>

locals == <<arg, question, buffer, n>>
marks  == <<src0, asked, startOut, startRdr>>

\* everything the writer has accepted
Accepted == writer.out \o writer.buf

\* Question::new(reader, writer) over the source r and an empty sink
New(r) ==
    /\ reader = r
    /\ src0 = r
    /\ writer = [buf |-> <<>>, out |-> <<>>]
    /\ pc = "idle"
    /\ arg = <<>>
    /\ question = <<>>
    /\ buffer = <<>>
    /\ n = 0
    /\ result = NoResult
    /\ prev = NoResult
    /\ asked = <<>>
    /\ startOut = <<>>
    /\ startRdr = r
    /\ writes = 0
    /\ flushes = 0
    /\ reads = 0
    /\ fault = "none"
    /\ faults = 0

\* ask returns res
Finish(res) ==
    /\ result' = res
    /\ prev' = result
    /\ pc' = "idle"

\* a failed stream operation is ignored and ask carries on
ignore_error(kind) ==
    /\ pc' = (IF kind = "write" THEN "flush"
              ELSE IF kind = "flush" THEN "read" ELSE "match")
    /\ UNCHANGED <<result, prev>>

\* the `?` operator on a failed stream operation: ask returns the error
Propagate(kind) == Finish(Err(kind))

\* the buffer of the previous call reused
stale_buffer == buffer

\* let mut buffer = String::new()
NewBuffer == <<>>

\* ask entered: let question = ensure_ends_with_whitespace(question);
\* cap bounds the bytes the sink takes
AskCall(qq, cap) ==
    /\ pc = "idle"
    /\ Len(Accepted) + Len(qq) + 1 <= cap
    /\ arg' = qq
    /\ question' = ensure_ends_with_whitespace(qq)
    /\ asked' = Append(asked, qq)
    /\ startOut' = Accepted
    /\ startRdr' = reader
    /\ writes' = 0
    /\ flushes' = 0
    /\ reads' = 0
    /\ fault' = "none"
    /\ pc' = "write"
    /\ UNCHANGED <<reader, writer, buffer, n, result, prev, src0, faults>>

\* self.writer.write_all(question.as_bytes())?  -- Ok
WriteAll ==
    /\ pc = "write"
    /\ writer' = WriterWrite(writer, question)
    /\ writes' = writes + 1
    /\ pc' = "flush"
    /\ UNCHANGED <<reader, locals, result, prev, marks, flushes, reads,
                   fault, faults>>

\* self.writer.write_all(question.as_bytes())?  -- Err: the writer took
\* only the first k bytes
WriteAllFail(k) ==
    /\ pc = "write"
    /\ faults < MaxFaults
    /\ k \in 0..(Len(question) - 1)
    /\ faults' = faults + 1
    /\ fault' = "write"
    /\ writer' = WriterWrite(writer, Prefix(question, k))
    /\ writes' = writes + 1
    /\ Propagate("write")
    /\ UNCHANGED <<reader, locals, marks, flushes, reads>>

\* self.writer.flush()?  -- Ok
Flush ==
    /\ pc = "flush"
    /\ writer' = WriterFlush(writer)
    /\ flushes' = flushes + 1
    /\ pc' = "read"
    /\ UNCHANGED <<reader, locals, result, prev, marks, writes, reads,
                   fault, faults>>

\* self.writer.flush()?  -- Err: only the first k buffered bytes reached
\* the sink
FlushFail(k) ==
    /\ pc = "flush"
    /\ faults < MaxFaults
    /\ k \in 0..(Len(writer.buf) - 1)
    /\ faults' = faults + 1
    /\ fault' = "flush"
    /\ writer' = [buf |-> Drop(writer.buf, k),
                  out |-> writer.out \o Prefix(writer.buf, k)]
    /\ flushes' = flushes + 1
    /\ Propagate("flush")
    /\ UNCHANGED <<reader, locals, marks, writes, reads>>

\* a failed read_line reported as end of input
read_error_as_none(kind) == None

\* `?` on a failed read_line: the value ask returns
ReadError(kind) == Err(kind)

\* let mut buffer = String::new();
\* let n = self.reader.read_line(&mut buffer)?  -- the source delivers its
\* bytes; a line that is not UTF-8 is consumed and is an InvalidData error
ReadLine ==
    /\ pc = "read"
    /\ LET len  == ReadUntilLen(reader)
           line == Prefix(reader, len)
       IN  /\ reader' = Drop(reader, len)
           /\ reads' = reads + 1
           /\ IF ValidUtf8(line)
              THEN /\ buffer' = NewBuffer \o line
                   /\ n' = len
                   /\ pc' = "match"
                   /\ UNCHANGED <<result, prev>>
              ELSE /\ Finish(ReadError("utf8"))
                   /\ UNCHANGED <<buffer, n>>
    /\ UNCHANGED <<writer, arg, question, marks, writes, flushes, fault,
                   faults>>

\* let n = self.reader.read_line(&mut buffer)?  -- the source fails after
\* k bytes of the line were consumed
ReadLineFail(k) ==
    /\ pc = "read"
    /\ faults < MaxFaults
    /\ k \in 0..ReadUntilLen(reader)
    /\ k < ReadUntilLen(reader) \/ reader = <<>>
    /\ faults' = faults + 1
    /\ fault' = "read"
    /\ reader' = Drop(reader, k)
    /\ reads' = reads + 1
    /\ Finish(ReadError("read"))
    /\ UNCHANGED <<writer, locals, marks, writes, flushes>>

\* Ok(match n { ... })
Return ==
    /\ pc = "match"
    /\ Finish(MatchN(n, buffer))
    /\ UNCHANGED <<reader, writer, locals, marks, writes, flushes, reads,
                   fault, faults>>

\* the steps of ask in which no stream fails
Step(Q, cap) ==
    \/ \E qq \in Q : AskCall(qq, cap)
    \/ WriteAll
    \/ Flush
    \/ ReadLine
    \/ Return

\* the steps of ask in which a stream fails
Fault ==
    \/ \E k \in 0..FaultOut : WriteAllFail(k)
    \/ \E k \in 0..FaultOut : FlushFail(k)
    \/ \E k \in 0..FaultSrcLen : ReadLineFail(k)

Init == \E r \in SeqsUpTo(SrcChars, FaultSrcLen) : New(r)
Next == Step(SeqsUpTo(QChars, FaultOut - 1), FaultOut) \/ Fault
Spec == Init /\ [][Next]_vars

InitMem == \E r \in SeqsUpTo(SrcChars, MaxSrcLen) : New(r)
NextMem == Step(SeqsUpTo(QChars, MaxOut - 1), MaxOut)
SpecMem == InitMem /\ [][NextMem]_vars

InitEmpty == New(<<>>)
NextEmpty == Step(SeqsUpTo(PromptChars, PromptOut - 1), PromptOut)
SpecEmpty == InitEmpty /\ [][NextEmpty]_vars

\* ------------------------------------------------- vocabulary of claims
\* the bytes the writer accepted during the current (or last) call
Wrote == Drop(Accepted, Len(startOut))

\* the bytes taken from the reader during the current (or last) call
Consumed == Prefix(startRdr, Len(startRdr) - Len(reader))

\* a call has returned and `result` is its value
Returned   == pc = "idle" /\ asked # <<>>
ReturnedOk == Returned /\ result.tag \in {"None", "Some"}

EndsInSpace(q)     == q # <<>> /\ q[Len(q)] = SP
EndsInOneSpace(q)  == EndsInSpace(q) /\ (Len(q) = 1 \/ q[Len(q) - 1] # SP)
EndsInTwoSpaces(q) == Len(q) >= 2 /\ q[Len(q)] = SP /\ q[Len(q) - 1] = SP

\* the question as the sink is expected to show it
WithSpace(q) == IF EndsInSpace(q) THEN q ELSE Append(q, SP)

RECURSIVE ConcatWithSpace(_)
ConcatWithSpace(qs) ==
    IF qs = <<>> THEN <<>>
    ELSE WithSpace(Head(qs)) \o ConcatWithSpace(Tail(qs))

IsText(s)        == \A i \in 1..Len(s) : s[i] # InvalidByte
AllWhitespace(s) == \A i \in 1..Len(s) : s[i] \in {SP, TAB, NL}

\* the first line of r: through its first newline, or all of r
FirstLine(r) ==
    LET nl == {i \in 1..Len(r) : r[i] = NL}
    IN  IF nl = {} THEN r
        ELSE Prefix(r, CHOOSE i \in nl : \A j \in nl : i <= j)

\* r after its first k lines, and the k-th line of r
RECURSIVE AfterLines(_, _)
AfterLines(r, k) ==
    IF k = 0 THEN r
    ELSE LET rest == AfterLines(r, k - 1)
         IN  Drop(rest, Len(FirstLine(rest)))

KthLine(r, k) == FirstLine(AfterLines(r, k - 1))

\* s is line without its leading and trailing whitespace
IsTrimOf(s, line) ==
    \E i \in 1..(Len(line) + 1) : \E j \in 0..Len(line) :
        /\ s = SubSeq(line, i, j)
        /\ \A m \in 1..(i - 1) : line[m] \in {SP, TAB, NL}
        /\ \A m \in (j + 1)..Len(line) : line[m] \in {SP, TAB, NL}
        /\ s # <<>> => s[1] \notin {SP, TAB, NL} /\ s[Len(s)] \notin {SP, TAB, NL}

\* what a call is expected to return when the reader holds r
ResultFor(r) ==
    IF r = <<>> THEN None
    ELSE IF ~IsText(FirstLine(r)) THEN Err("utf8")
    ELSE Some(CHOOSE s \in {SubSeq(r, i, j) : i \in 1..(Len(r) + 1), j \in 0..Len(r)} :
                  IsTrimOf(s, FirstLine(r)))

\* ---------------------------------------------------------------- claims

\* C1 (SpecEmpty): a successful ask(q) adds to the sink exactly q followed
\* by one space when q does not end in a space, exactly q when q ends in
\* exactly one space, and a single space when q is empty; nothing stays
\* buffered and what the sink held before is untouched.
C1_WritesQuestionWithOneSpace ==
    ReturnedOk =>
        /\ writer.buf = <<>>
        /\ Prefix(writer.out, Len(startOut)) = startOut
        /\ ~EndsInSpace(arg) => Wrote = arg \o <<SP>>
        /\ EndsInOneSpace(arg) => Wrote = arg
        /\ arg = <<>> => Wrote = <<SP>>

C1_Witness ==
    /\ ReturnedOk
    /\ Len(asked) = 2
    /\ asked[1] = <<"a">>
    /\ arg = <<"a", SP>>
    /\ writer.out = <<"a", SP, "a", SP>>

\* C2 (SpecMem): when the reader is at end of input as ask(q) is called,
\* the call returns None, whatever q is, and the sink has received the
\* whole normalised question.
C2_EofGivesNoneAfterQuestion ==
    (Returned /\ startRdr = <<>>) =>
        /\ result = None
        /\ writer.out = startOut \o WithSpace(arg)
        /\ writer.buf = <<>>

C2_Witness ==
    /\ Returned
    /\ startRdr = <<>>
    /\ src0 = <<>>
    /\ arg = <<"a", "a">>
    /\ result = None
    /\ writer.out = <<"a", "a", SP>>

\* C3 (SpecMem): when the reader's next line is non-empty text, with or
\* without a terminating newline, ask returns Some(s) where s is that line
\* without its leading and trailing whitespace (newline included) and with
\* its interior unchanged.
C3_LineGivesTrimmedAnswer ==
    (Returned /\ startRdr # <<>> /\ IsText(FirstLine(startRdr))) =>
        /\ result.tag = "Some"
        /\ IsTrimOf(result.val, FirstLine(startRdr))

C3_Witness ==
    /\ Returned
    /\ startRdr = <<SP, "a", SP, NL>>
    /\ result = Some(<<"a">>)

\* C4 (SpecMem): a successful ask returns None exactly when the line read
\* consumed zero bytes; a line of nothing but whitespace and/or a newline
\* gives Some of the empty string.
C4_NoneIffNothingRead ==
    ReturnedOk =>
        /\ result = None <=> Consumed = <<>>
        /\ (Consumed # <<>> /\ AllWhitespace(Consumed)) => result = Some(<<>>)

C4_Witness ==
    /\ ReturnedOk
    /\ Consumed = <<SP, NL>>
    /\ result = Some(<<>>)

\* C5 (SpecMem): the k-th call on a Question consumes exactly the k-th line
\* of the source, nothing before it and nothing after its newline, and
\* returns that line trimmed (None once the lines are used up).
C5_KthCallReadsKthLine ==
    Returned =>
        LET k    == Len(asked)
            line == KthLine(src0, k)
        IN  /\ Consumed = line
            /\ reader = AfterLines(src0, k)
            /\ IsText(line) =>
                 IF line = <<>> THEN result = None
                 ELSE result.tag = "Some" /\ IsTrimOf(result.val, line)

C5_Witness ==
    /\ Returned
    /\ Len(asked) = 2
    /\ src0 = <<"a", NL, SP, NL>>
    /\ prev = Some(<<"a">>)
    /\ result = Some(<<>>)
    /\ Consumed = <<SP, NL>>
    /\ reader = <<>>

\* C6 (Spec): when write_all or flush fails, ask returns that error, has
\* made no read (the reader is where it was when the call began) and has
\* called write_all once only.
C6_WriteFailureAbortsCall ==
    (Returned /\ fault \in {"write", "flush"}) =>
        /\ result = Err(fault)
        /\ reader = startRdr
        /\ reads = 0
        /\ writes = 1
        /\ flushes = (IF fault = "flush" THEN 1 ELSE 0)

C6_Witness ==
    /\ Returned
    /\ fault = "write"
    /\ result = Err("write")
    /\ reader # <<>>
    /\ reader = src0

\* C7 (Spec): whenever ask is about to read, or has read, the whole
\* normalised question has been written once and flushed, and it ends in
\* whitespace; until the flush has returned nothing is taken from the
\* reader.
C7_QuestionFlushedBeforeRead ==
    /\ (pc \in {"read", "match"} \/ reads > 0) =>
          /\ writes = 1
          /\ flushes = 1
          /\ writer.buf = <<>>
          /\ writer.out = startOut \o WithSpace(arg)
          /\ writer.out[Len(writer.out)] \in {SP, TAB, NL}
    /\ pc \in {"write", "flush"} => reader = startRdr /\ reads = 0

C7_Witness ==
    /\ pc = "read"
    /\ reads = 0
    /\ reader = <<"a", NL>>
    /\ arg = <<"a">>
    /\ writer = [buf |-> <<>>, out |-> <<"a", SP>>]

\* C8 as stated (SpecEmpty): one space is appended unless the question
\* ends with a single space, so a question ending in two spaces gets a
\* third.
C8_AsStated ==
    ReturnedOk =>
        Wrote = (IF EndsInOneSpace(arg) THEN arg ELSE arg \o <<SP>>)

\* C8 amended (SpecEmpty): one space is appended unless the last character
\* of the question is a space: a question ending in a tab or a newline
\* gets one space appended, and a question ending in two spaces is written
\* unchanged.
C8_AppendsUnlessLastIsSpace ==
    ReturnedOk =>
        /\ Wrote = (IF arg # <<>> /\ arg[Len(arg)] = SP THEN arg ELSE arg \o <<SP>>)
        /\ (arg # <<>> /\ arg[Len(arg)] \in {TAB, NL}) => Wrote = arg \o <<SP>>
        /\ EndsInTwoSpaces(arg) => Wrote = arg

C8_Witness ==
    /\ ReturnedOk
    /\ arg = <<"a", SP, SP>>
    /\ Wrote = <<"a", SP, SP>>

\* C9 (Spec): when read_line fails, by a fault of the source or by a line
\* that is not UTF-8, ask returns an error, has called read_line once, and
\* the written and flushed question is in the sink; at end of input with
\* no fault the result is not an error.
C9_ReadFailureIsError ==
    /\ (Returned /\ (fault = "read" \/
                     (fault = "none" /\ ~IsText(FirstLine(startRdr))))) =>
          /\ result.tag = "Err"
          /\ result.kind \in {"read", "utf8"}
          /\ reads = 1
          /\ writer.out = startOut \o WithSpace(arg)
          /\ writer.buf = <<>>
    /\ (Returned /\ fault = "none" /\ startRdr = <<>>) => result.tag # "Err"

C9_Witness ==
    /\ Returned
    /\ fault = "none"
    /\ startRdr = <<"a", InvalidByte, NL>>
    /\ result = Err("utf8")
    /\ writer.out = <<"a", SP>>

\* C10 (SpecMem): between calls the sink holds exactly the normalised
\* questions asked so far, in call order, whatever was read; each result is
\* the one the unread rest of the source alone determines; after a None
\* every later call returns None.
C10_NoCrossCallMemory ==
    pc = "idle" =>
        /\ writer.out = ConcatWithSpace(asked)
        /\ writer.buf = <<>>
        /\ Returned => result = ResultFor(startRdr)
        /\ (Returned /\ prev = None) => result = None

C10_Witness ==
    /\ Returned
    /\ Len(asked) = 3
    /\ src0 = <<SP, "a">>
    /\ asked[1] = <<"a">>
    /\ prev = None
    /\ result = None
    /\ writer.out = ConcatWithSpace(asked)
====
